---- MODULE Spec2Model ----
(***************************************************************************)
(* quick-yaml.db: a key/value store persisted as one YAML file that is     *)
(* read and rewritten in full by every operation.                          *)
(*                                                                         *)
(* Three classes named QuickYAML exist in the sources:                     *)
(*   "model"  : the store with options/model and push/pull/purge/...       *)
(*   "plain"  : the intermediate store (set/delete/get/has/clear/...)      *)
(*   "cached" : the earliest store, which also keeps a Map cache           *)
(*                                                                         *)
(* Scope of the value universe: variable names are ordinary identifiers    *)
(* (not integer-like, not members of Object.prototype), numbers are finite *)
(* (no NaN), and no two distinct texts of the model are substrings of each *)
(* other except the empty text.                                            *)
(***************************************************************************)
EXTENDS Integers, Sequences, FiniteSets, TLC

VARIABLES
    path,    \* this.path, a sequence of characters
    exists,  \* whether a file is at the path (fs.existsSync)
    file,    \* the content of that file
    db,      \* the store: whether one is constructed, and of which class
    cache,   \* this.cache of the cached store
    last,    \* the call that has just returned, "none" between two calls
    writers  \* the mutation each of several stores on the path has under way

vars == <<path, exists, file, db, cache, last, writers>>

----------------------------------------------------------------------------
(* Bounds of the model *)

\* longest array a push may build
MaxSeqLen == 3
\* most rest-arguments given to push / pull
MaxArgs == 2
\* most entries of options.model.defaultModelValues
MaxDefaults == 2

\* variables given to one purge or pick
MaxPicked == 2

----------------------------------------------------------------------------
(* YAMLTypes: string | number | boolean | YAMLTypes[] | {[key]: YAMLTypes} | null *)

Str(s) == [t |-> "str", s |-> s, ks |-> <<>>, e |-> <<>>]
Num(s) == [t |-> "num", s |-> s, ks |-> <<>>, e |-> <<>>]
Bool(s) == [t |-> "bool", s |-> s, ks |-> <<>>, e |-> <<>>]
NullV == [t |-> "null", s |-> "null", ks |-> <<>>, e |-> <<>>]
SeqV(e) == [t |-> "seq", s |-> "", ks |-> <<>>, e |-> e]
MapV(ks, e) == [t |-> "map", s |-> "", ks |-> ks, e |-> e]

IsScalar(v) == v.t \in {"str", "num", "bool", "null"}

\* YAMLStructure<T>: a JS object, own keys in insertion order
Obj(ks, e) == [ks |-> ks, e |-> e]
EmptyObj == Obj(<<>>, <<>>)

\* variable in obj
In(k, obj) == \E i \in 1..Len(obj.ks) : obj.ks[i] = k

KeyIndex(k, obj) == CHOOSE i \in 1..Len(obj.ks) : obj.ks[i] = k

\* obj[variable], for a key that is in obj
Prop(obj, k) == obj.e[KeyIndex(k, obj)]

\* Mutant of Assign: a mapping assigned over a mapping is merged into it
AssignMerging(obj, k, v) ==
    IF In(k, obj)
    THEN LET old == Prop(obj, k)
         IN  Obj(obj.ks, [obj.e EXCEPT ![KeyIndex(k, obj)] =
                            IF old.t = "map" /\ v.t = "map"
                            THEN MapV(old.ks \o v.ks, old.e \o v.e)
                            ELSE v])
    ELSE Obj(Append(obj.ks, k), Append(obj.e, v))

\* obj[variable] = value: an existing key keeps its place, a new one goes last
Assign(obj, k, v) ==
    IF In(k, obj)
    THEN Obj(obj.ks, [obj.e EXCEPT ![KeyIndex(k, obj)] = v])
    ELSE Obj(Append(obj.ks, k), Append(obj.e, v))

Without(s, i) == [j \in 1..(Len(s) - 1) |-> IF j < i THEN s[j] ELSE s[j + 1]]

\* delete obj[variable]
DeleteProp(obj, k) ==
    IF In(k, obj)
    THEN Obj(Without(obj.ks, KeyIndex(k, obj)), Without(obj.e, KeyIndex(k, obj)))
    ELSE obj

----------------------------------------------------------------------------
(* js-yaml: dump writes a node per value, load resolves a node to a value.  *)
(* A plain scalar is resolved by its text (null, boolean, number, else     *)
(* string), so dump quotes a string whose text would resolve otherwise.    *)

NullLexemes == {"", "~", "null", "Null", "NULL"}
BoolLexemes == {"true", "True", "TRUE", "false", "False", "FALSE"}
\* the numerals among the texts of the model
NumLexemes == {"0", "1", "2"}

ResolvesToOther(s) == s \in NullLexemes \cup BoolLexemes \cup NumLexemes

Plain(text) == [style |-> "plain", text |-> text, ks |-> <<>>, e |-> <<>>]
Quoted(text) == [style |-> "quoted", text |-> text, ks |-> <<>>, e |-> <<>>]

\* Mutant of DumpNode: a string is never quoted
RECURSIVE DumpNodeUnquoted(_)
DumpNodeUnquoted(v) ==
    CASE IsScalar(v) -> Plain(v.s)
      [] v.t = "seq" ->
            [style |-> "seq", text |-> "", ks |-> <<>>,
             e |-> [i \in 1..Len(v.e) |-> DumpNodeUnquoted(v.e[i])]]
      [] v.t = "map" ->
            [style |-> "map", text |-> "", ks |-> v.ks,
             e |-> [i \in 1..Len(v.e) |-> DumpNodeUnquoted(v.e[i])]]

\* jsyaml.dump of one value: a string that would be read back as null, a
\* boolean or a number is written in quotes
RECURSIVE DumpNode(_)
DumpNode(v) ==
    CASE v.t = "str" -> IF ResolvesToOther(v.s) THEN Quoted(v.s) ELSE Plain(v.s)
      [] v.t \in {"num", "bool", "null"} -> Plain(v.s)
      [] v.t = "seq" ->
            [style |-> "seq", text |-> "", ks |-> <<>>,
             e |-> [i \in 1..Len(v.e) |-> DumpNode(v.e[i])]]
      [] v.t = "map" ->
            [style |-> "map", text |-> "", ks |-> v.ks,
             e |-> [i \in 1..Len(v.e) |-> DumpNode(v.e[i])]]

ResolvePlain(text) ==
    CASE text \in NullLexemes -> NullV
      [] text \in {"true", "True", "TRUE"} -> Bool("true")
      [] text \in {"false", "False", "FALSE"} -> Bool("false")
      [] text \in NumLexemes -> Num(text)
      [] OTHER -> Str(text)

RECURSIVE LoadNode(_)
LoadNode(n) ==
    CASE n.style = "plain" -> ResolvePlain(n.text)
      [] n.style = "quoted" -> Str(n.text)
      [] n.style = "seq" -> SeqV([i \in 1..Len(n.e) |-> LoadNode(n.e[i])])
      [] n.style = "map" -> MapV(n.ks, [i \in 1..Len(n.e) |-> LoadNode(n.e[i])])

\* The content of the file: zero-length, a block mapping "k: node" per line,
\* the flow literal "{}", or text js-yaml cannot parse.
EmptyFile == [kind |-> "empty", ks |-> <<>>, e |-> <<>>]
FlowEmptyFile == [kind |-> "flow", ks |-> <<>>, e |-> <<>>]
MalformedFile == [kind |-> "malformed", ks |-> <<>>, e |-> <<>>]
BlockFile(ks, e) == [kind |-> "block", ks |-> ks, e |-> e]

\* jsyaml.dump(obj)
Dump(obj) ==
    IF Len(obj.ks) = 0
    THEN FlowEmptyFile
    ELSE BlockFile(obj.ks, [i \in 1..Len(obj.e) |-> DumpNode(obj.e[i])])

\* jsyaml.load(text): undefined for an empty text, throws on malformed text
Parse(f) ==
    CASE f.kind = "malformed" -> [threw |-> TRUE, undef |-> FALSE, obj |-> EmptyObj]
      [] f.kind = "empty" -> [threw |-> FALSE, undef |-> TRUE, obj |-> EmptyObj]
      [] f.kind = "flow" -> [threw |-> FALSE, undef |-> FALSE, obj |-> EmptyObj]
      [] f.kind = "block" ->
            [threw |-> FALSE, undef |-> FALSE,
             obj |-> Obj(f.ks, [i \in 1..Len(f.e) |-> LoadNode(f.e[i])])]

----------------------------------------------------------------------------
(* Results of a call: what it returns or throws *)

Ret(kind, v, n, b, msg) == [kind |-> kind, v |-> v, n |-> n, b |-> b, msg |-> msg]
RThis == Ret("this", NullV, 0, FALSE, "")
RUndefined == Ret("undefined", NullV, 0, FALSE, "")
RValue(v) == Ret("value", v, 0, FALSE, "")
RBool(b) == Ret("bool", NullV, 0, b, "")
RNumber(n) == Ret("number", NullV, n, FALSE, "")
RThrow(msg) == Ret("throw", NullV, 0, FALSE, msg)
RNone == Ret("none", NullV, 0, FALSE, "")

ErrNotFound == "The file path was not found"
ErrExtension == "The file path is must end with .yaml or .yml"
ErrExtensionCached == "The file path is not a YAML file (.yaml and .yml allowed only)"
ErrDeleted == "The file path was not found or was deleted"
ErrWrite == "Unable to write the YAML file"
ErrParse == "Unable to parse the YAML file"
ErrType == "TypeError"

\* What a call leaves behind: its result, the file system, the cache and the
\* number of fs.writeFileSync calls that went through.
Outcome(ret, ex, f, c, nw) ==
    [ret |-> ret, exists |-> ex, file |-> f, cache |-> c, nw |-> nw]

\* The store as a method sees it: this.path on disk and this.cache
Self(variant, ex, f, c) == [variant |-> variant, exists |-> ex, file |-> f, cache |-> c]

Unchanged(self, ret) == Outcome(ret, self.exists, self.file, self.cache, 0)

----------------------------------------------------------------------------
(* _load and _write *)

\* Mutant of load: text that cannot be parsed is taken as an empty document
loadLenient(self) ==
    IF ~self.exists
    THEN [ok |-> FALSE, err |-> ErrDeleted, obj |-> EmptyObj]
    ELSE LET data == Parse(self.file)
         IN  [ok |-> TRUE, err |-> "",
              obj |-> IF data.threw \/ data.undef THEN EmptyObj ELSE data.obj]

\* private _load(): existsSync, then jsyaml.load(readFileSync) || {}
load(self) ==
    IF ~self.exists
    THEN [ok |-> FALSE, err |-> ErrDeleted, obj |-> EmptyObj]
    ELSE LET data == Parse(self.file)
         IN  IF data.threw
             THEN [ok |-> FALSE, err |-> ErrParse, obj |-> EmptyObj]
             ELSE [ok |-> TRUE, err |-> "",
                   obj |-> IF data.undef THEN EmptyObj ELSE data.obj]

\* public toJSON(): return this._load()
toJSON(self) == load(self)

\* Mutant of write: every object goes through jsyaml.dump, the empty one too
writeDumpingAlways(self, obj, ioOk) ==
    IF ~self.exists
    THEN Unchanged(self, RThrow(ErrDeleted))
    ELSE IF ~ioOk
    THEN Unchanged(self, RThrow(ErrWrite))
    ELSE Outcome(RNone, TRUE, Dump(obj),
                 IF self.variant = "cached" THEN obj ELSE self.cache, 1)

\* Mutant of write: no existsSync test, so writeFileSync creates the file
writeCreating(self, obj, ioOk) ==
    IF ~ioOk
    THEN Unchanged(self, RThrow(ErrWrite))
    ELSE IF Len(obj.ks) <= 0
    THEN Outcome(RNone, TRUE, EmptyFile,
                 IF self.variant = "cached" THEN EmptyObj ELSE self.cache, 1)
    ELSE Outcome(RNone, TRUE, Dump(obj),
                 IF self.variant = "cached" THEN obj ELSE self.cache, 1)

\* private _write(obj): existsSync; '' for an object without keys, else
\* jsyaml.dump(obj); the cached store then refills its cache from obj.
\* ioOk: whether fs.writeFileSync goes through (it throws otherwise, and the
\* catch rethrows 'Unable to write the YAML file').
write(self, obj, ioOk) ==
    IF ~self.exists
    THEN Unchanged(self, RThrow(ErrDeleted))
    ELSE IF ~ioOk
    THEN Unchanged(self, RThrow(ErrWrite))
    ELSE IF Len(obj.ks) <= 0
    THEN Outcome(RNone, TRUE, EmptyFile,
                 IF self.variant = "cached" THEN EmptyObj ELSE self.cache, 1)
    ELSE Outcome(RNone, TRUE, Dump(obj),
                 IF self.variant = "cached" THEN obj ELSE self.cache, 1)

Threw(o) == o.ret.kind = "throw"

----------------------------------------------------------------------------
(* Queries *)

Falsy(v) ==
    \/ v.t = "null"
    \/ v = Bool("false")
    \/ v = Num("0")
    \/ v = Str("")

\* Mutant of get: obj[variable] || undefined
getTruthy(self, variable) ==
    LET obj == toJSON(self)
    IN  IF ~obj.ok THEN RThrow(obj.err)
        ELSE IF In(variable, obj.obj) /\ ~Falsy(Prop(obj.obj, variable))
        THEN RValue(Prop(obj.obj, variable))
        ELSE RUndefined

\* get(variable): variable in obj ? obj[variable] : undefined
get(self, variable) ==
    LET obj == toJSON(self)
    IN  IF ~obj.ok THEN RThrow(obj.err)
        ELSE IF In(variable, obj.obj) THEN RValue(Prop(obj.obj, variable))
        ELSE RUndefined

\* has(variable): variable in obj
has(self, variable) ==
    LET obj == toJSON(self)
    IN  IF ~obj.ok THEN RThrow(obj.err) ELSE RBool(In(variable, obj.obj))

\* keys(): Object.keys(obj)
keys(self) == toJSON(self).obj.ks

\* get size(): this.keys().length
size(self) == Len(keys(self))

----------------------------------------------------------------------------
(* Mutations *)

\* set(variable, value): load, obj[variable] = value, write, return this
set(self, variable, value, ioOk) ==
    LET obj == toJSON(self)
    IN  IF ~obj.ok THEN Unchanged(self, RThrow(obj.err))
        ELSE LET w == write(self, Assign(obj.obj, variable, value), ioOk)
             IN  IF Threw(w) THEN w ELSE [w EXCEPT !.ret = RThis]

\* Mutant of delete: the write is made whether or not the key was there
deleteWritingAlways(self, variable, ioOk) ==
    LET obj == toJSON(self)
    IN  IF ~obj.ok THEN Unchanged(self, RThrow(obj.err))
        ELSE LET w == write(self, DeleteProp(obj.obj, variable), ioOk)
             IN  IF Threw(w) THEN w ELSE [w EXCEPT !.ret = RThis]

\* delete(variable): load; only when variable in obj: delete it (the cached
\* store first drops it from the cache) and write; return this
delete(self, variable, ioOk) ==
    LET obj == toJSON(self)
    IN  IF ~obj.ok THEN Unchanged(self, RThrow(obj.err))
        ELSE IF ~In(variable, obj.obj) THEN Unchanged(self, RThis)
        ELSE LET dropped == IF self.variant = "cached"
                            THEN [self EXCEPT !.cache = DeleteProp(self.cache, variable)]
                            ELSE self
                 w == write(dropped, DeleteProp(obj.obj, variable), ioOk)
             IN  IF Threw(w) THEN w ELSE [w EXCEPT !.ret = RThis]

\* Mutant of clear: the document is loaded before the write, as set does
clearLoading(self, ioOk) ==
    LET obj == toJSON(self)
    IN  IF ~obj.ok THEN Unchanged(self, RThrow(obj.err))
        ELSE LET w == write(self, EmptyObj, ioOk)
             IN  IF Threw(w) THEN w ELSE [w EXCEPT !.ret = RThis]

\* clear(): this._write({}); return this
clear(self, ioOk) ==
    LET w == write(self, EmptyObj, ioOk)
    IN  IF Threw(w) THEN w ELSE [w EXCEPT !.ret = RThis]

----------------------------------------------------------------------------
(* Array methods as push and pull use them.  A loaded document holds fresh  *)
(* objects, so an array or mapping in it is never the same object as an    *)
(* argument of the caller: === and SameValueZero agree on every value of   *)
(* the model and hold for equal primitives only.                           *)

\* v !== value, negated
StrictEquals(v, value) == IsScalar(v) /\ IsScalar(value) /\ v = value

\* Array.prototype.includes compares with SameValueZero
SameValueZero(v, value) == IsScalar(v) /\ IsScalar(value) /\ v = value

includes(arr, value) == \E i \in 1..Len(arr) : SameValueZero(arr[i], value)

Keep(v, value) == ~StrictEquals(v, value)

FirstMatch(arr, value) ==
    CHOOSE i \in 1..Len(arr) :
        /\ StrictEquals(arr[i], value)
        /\ \A j \in 1..(i - 1) : ~StrictEquals(arr[j], value)

\* Mutant of filter: only the first occurrence is removed
filterFirst(arr, value) ==
    IF \E i \in 1..Len(arr) : StrictEquals(arr[i], value)
    THEN [j \in 1..(Len(arr) - 1) |->
            IF j < FirstMatch(arr, value) THEN arr[j] ELSE arr[j + 1]]
    ELSE arr

\* arr.filter((v) => v !== value)
filter(arr, value) == SelectSeq(arr, LAMBDA v : Keep(v, value))

\* for (const value of values) if (arr.includes(value)) arr = arr.filter(...)
RECURSIVE PullLoop(_, _, _)
PullLoop(arr, values, i) ==
    IF i > Len(values) THEN arr
    ELSE PullLoop(IF includes(arr, values[i]) THEN filter(arr, values[i]) ELSE arr,
                  values, i + 1)

\* String(value), as String.prototype.includes coerces its argument; the text
\* of an array of two or more elements holds a comma, which no text of the
\* model does.
StringOf(value) ==
    CASE IsScalar(value) -> value.s
      [] value.t = "seq" /\ Len(value.e) = 0 -> ""
      [] value.t = "seq" /\ Len(value.e) = 1 /\ IsScalar(value.e[1]) ->
            IF value.e[1].t = "null" THEN "" ELSE value.e[1].s
      [] value.t = "seq" -> ","
      [] value.t = "map" -> "[object Object]"

\* text.includes(part), for the texts of the model
IsSubstring(part, text) == part = "" \/ part = text

\* text.length, for the string values of the model
TextLength(text) ==
    CASE text = "" -> 0
      [] text = "1" -> 1
      [] text = "John" -> 4

\* Mutant of push: a key that is absent is given a new array
pushCreating(self, variable, values, ioOk) ==
    LET data == toJSON(self)
    IN  IF ~data.ok THEN Unchanged(self, RThrow(data.err))
        ELSE LET target == IF In(variable, data.obj)
                           THEN Prop(data.obj, variable) ELSE SeqV(<<>>)
             IN  IF target.t # "seq"
                 THEN Unchanged(self, RThrow(ErrType))
                 ELSE LET arr == target.e \o values
                          w == write(self, Assign(data.obj, variable, SeqV(arr)), ioOk)
                      IN  IF Threw(w) THEN w ELSE [w EXCEPT !.ret = RNumber(Len(arr))]

\* Mutant of push: the length is taken before the values are appended
pushOldLength(self, variable, values, ioOk) ==
    LET data == toJSON(self)
    IN  IF ~data.ok THEN Unchanged(self, RThrow(data.err))
        ELSE IF ~has(self, variable).b THEN Unchanged(self, RNumber(-1))
        ELSE LET target == Prop(data.obj, variable)
             IN  IF target.t # "seq"
                 THEN Unchanged(self, RThrow(ErrType))
                 ELSE LET arr == target.e \o values
                          w == write(self, Assign(data.obj, variable, SeqV(arr)), ioOk)
                      IN  IF Threw(w) THEN w
                          ELSE [w EXCEPT !.ret = RNumber(Len(target.e))]

\* push(variable, ...values)
push(self, variable, values, ioOk) ==
    LET data == toJSON(self)
    IN  IF ~data.ok THEN Unchanged(self, RThrow(data.err))
        ELSE IF ~has(self, variable).b THEN Unchanged(self, RNumber(-1))
        ELSE LET target == Prop(data.obj, variable)
             IN  IF target.t # "seq"
                 THEN Unchanged(self, RThrow(ErrType))
                 ELSE LET arr == target.e \o values
                          w == write(self, Assign(data.obj, variable, SeqV(arr)), ioOk)
                      IN  IF Threw(w) THEN w ELSE [w EXCEPT !.ret = RNumber(Len(arr))]

\* What the loop of pull does to a value that is no array: a string has
\* includes but no filter, anything else has neither.
PullLoopThrows(target, values) ==
    IF target.t = "str"
    THEN \E i \in 1..Len(values) : IsSubstring(StringOf(values[i]), target.s)
    ELSE Len(values) > 0

\* Mutant of pull: the filtered sequence is returned but never written back
pullWithoutWrite(self, variable, values, ioOk) ==
    LET data == toJSON(self)
    IN  IF ~data.ok THEN Unchanged(self, RThrow(data.err))
        ELSE IF ~has(self, variable).b THEN Unchanged(self, RNumber(-1))
        ELSE LET target == Prop(data.obj, variable)
             IN  IF target.t = "seq"
                 THEN Unchanged(self, RNumber(Len(PullLoop(target.e, values, 1))))
                 ELSE Unchanged(self, RThrow(ErrType))

\* Mutant of pull: the write is made only when a value was removed
pullWritingWhenFound(self, variable, values, ioOk) ==
    LET data == toJSON(self)
    IN  IF ~data.ok THEN Unchanged(self, RThrow(data.err))
        ELSE IF ~has(self, variable).b THEN Unchanged(self, RNumber(-1))
        ELSE LET target == Prop(data.obj, variable)
             IN  IF target.t # "seq" THEN Unchanged(self, RThrow(ErrType))
                 ELSE LET arr == PullLoop(target.e, values, 1)
                          w == write(self, Assign(data.obj, variable, SeqV(arr)), ioOk)
                      IN  IF arr = target.e THEN Unchanged(self, RNumber(Len(arr)))
                          ELSE IF Threw(w) THEN w
                          ELSE [w EXCEPT !.ret = RNumber(Len(arr))]

\* pull(variable, ...values)
pull(self, variable, values, ioOk) ==
    LET data == toJSON(self)
    IN  IF ~data.ok THEN Unchanged(self, RThrow(data.err))
        ELSE IF ~has(self, variable).b THEN Unchanged(self, RNumber(-1))
        ELSE LET target == Prop(data.obj, variable)
             IN  IF target.t = "seq"
                 THEN LET arr == PullLoop(target.e, values, 1)
                          w == write(self, Assign(data.obj, variable, SeqV(arr)), ioOk)
                      IN  IF Threw(w) THEN w ELSE [w EXCEPT !.ret = RNumber(Len(arr))]
                 ELSE IF PullLoopThrows(target, values)
                 THEN Unchanged(self, RThrow(ErrType))
                 ELSE LET w == write(self, data.obj, ioOk)
                      IN  IF Threw(w) THEN w
                          ELSE [w EXCEPT !.ret =
                                  CASE target.t = "str" -> RNumber(TextLength(target.s))
                                    [] target.t = "null" -> RThrow(ErrType)
                                    [] OTHER -> RUndefined]

----------------------------------------------------------------------------
(* Construction *)

EndsWith(s, suffix) ==
    /\ Len(s) >= Len(suffix)
    /\ SubSeq(s, Len(s) - Len(suffix) + 1, Len(s)) = suffix

DotYaml == <<".", "y", "a", "m", "l">>
DotYml == <<".", "y", "m", "l">>

\* QuickYAMLOptions: model is whether options.model is given; ready is
\* options.model.setValuesOnReady
NoOptions == [model |-> FALSE, ready |-> "undefined", defaultModelValues |-> <<>>]

\* Mutant of seed: every default is set, whether or not its variable is there
RECURSIVE seedOverwriting(_, _, _, _, _)
seedOverwriting(self, defaults, i, failAt, writes) ==
    IF i > Len(defaults) THEN Outcome(RThis, self.exists, self.file, self.cache, writes)
    ELSE LET s == set(self, defaults[i].variable, defaults[i].value,
                      writes + 1 # failAt)
         IN  IF Threw(s)
             THEN Outcome(s.ret, s.exists, s.file, s.cache, writes)
             ELSE seedOverwriting([self EXCEPT !.exists = s.exists, !.file = s.file,
                                               !.cache = s.cache],
                                  defaults, i + 1, failAt, writes + s.nw)

\* the constructor's loop over options.model.defaultModelValues, from entry i;
\* failAt: which write of the loop fails (0: none), writes: those done so far
RECURSIVE seed(_, _, _, _, _)
seed(self, defaults, i, failAt, writes) ==
    IF i > Len(defaults) THEN Outcome(RThis, self.exists, self.file, self.cache, writes)
    ELSE LET present == has(self, defaults[i].variable)
         IN  IF present.kind = "throw"
             THEN Outcome(present, self.exists, self.file, self.cache, writes)
             ELSE IF present.b THEN seed(self, defaults, i + 1, failAt, writes)
             ELSE LET s == set(self, defaults[i].variable, defaults[i].value,
                               writes + 1 # failAt)
                  IN  IF Threw(s)
                      THEN Outcome(s.ret, s.exists, s.file, s.cache, writes)
                      ELSE seed([self EXCEPT !.exists = s.exists, !.file = s.file,
                                             !.cache = s.cache],
                                defaults, i + 1, failAt, writes + s.nw)

\* Mutant of constructModel: the extension of the path is not looked at
constructModelAnyPath(p, self, options, failAt) ==
    IF ~self.exists THEN Unchanged(self, RThrow(ErrNotFound))
    ELSE IF options.model /\ Len(options.defaultModelValues) > 0
            /\ options.ready = "true"
    THEN seed(self, options.defaultModelValues, 1, failAt, 0)
    ELSE Unchanged(self, RThis)

\* Mutant of constructModel: the defaults are set whatever setValuesOnReady is
constructModelSeedingAlways(p, self, options, failAt) ==
    IF ~self.exists THEN Unchanged(self, RThrow(ErrNotFound))
    ELSE IF ~(EndsWith(p, DotYaml) \/ EndsWith(p, DotYml))
    THEN Unchanged(self, RThrow(ErrExtension))
    ELSE IF options.model /\ Len(options.defaultModelValues) > 0
    THEN seed(self, options.defaultModelValues, 1, failAt, 0)
    ELSE Unchanged(self, RThis)

\* new QuickYAML(path, options) of the store with a model
constructModel(p, self, options, failAt) ==
    IF ~self.exists THEN Unchanged(self, RThrow(ErrNotFound))
    ELSE IF ~(EndsWith(p, DotYaml) \/ EndsWith(p, DotYml))
    THEN Unchanged(self, RThrow(ErrExtension))
    ELSE IF options.model /\ Len(options.defaultModelValues) > 0
            /\ options.ready = "true"
    THEN seed(self, options.defaultModelValues, 1, failAt, 0)
    ELSE Unchanged(self, RThis)

\* new QuickYAML(path) of the intermediate store: _init()
constructPlain(p, self) ==
    IF ~self.exists THEN Unchanged(self, RThrow(ErrNotFound))
    ELSE IF ~(EndsWith(p, DotYaml) \/ EndsWith(p, DotYml))
    THEN Unchanged(self, RThrow(ErrExtension))
    ELSE Unchanged(self, RThis)

\* new QuickYAML(path) of the cached store: _init(), which also fills the cache
constructCached(p, self) ==
    IF ~self.exists THEN Unchanged(self, RThrow(ErrNotFound))
    ELSE IF ~EndsWith(p, DotYaml) \/ ~EndsWith(p, DotYml)
    THEN Unchanged(self, RThrow(ErrExtensionCached))
    ELSE LET data == toJSON(self)
         IN  IF ~data.ok THEN Unchanged(self, RThrow(data.err))
             ELSE Outcome(RThis, self.exists, self.file, data.obj, 0)

construct(variant, p, self, options, failAt) ==
    CASE variant = "model" -> constructModel(p, self, options, failAt)
      [] variant = "plain" -> constructPlain(p, self)
      [] variant = "cached" -> constructCached(p, self)

----------------------------------------------------------------------------
(* purge and the remaining queries of the store with a model *)

\* undefined, where a JS value is expected
UndefinedV == [t |-> "undefined", s |-> "undefined", ks |-> <<>>, e |-> <<>>]

\* for (const variable of variables) if (variable in obj) delete obj[variable]
RECURSIVE PurgeLoop(_, _, _)
PurgeLoop(obj, variables, i) ==
    IF i > Len(variables) THEN obj
    ELSE PurgeLoop(IF In(variables[i], obj) THEN DeleteProp(obj, variables[i]) ELSE obj,
                   variables, i + 1)

\* Mutant of purge: as delete does, it writes only when a variable was there
purgeWritingWhenFound(self, variables, ioOk) ==
    LET obj == toJSON(self)
    IN  IF ~obj.ok THEN Unchanged(self, RThrow(obj.err))
        ELSE IF PurgeLoop(obj.obj, variables, 1) = obj.obj THEN Unchanged(self, RThis)
        ELSE LET w == write(self, PurgeLoop(obj.obj, variables, 1), ioOk)
             IN  IF Threw(w) THEN w ELSE [w EXCEPT !.ret = RThis]

\* purge(...variables): load, delete those that are there, write, return this
purge(self, variables, ioOk) ==
    LET obj == toJSON(self)
    IN  IF ~obj.ok THEN Unchanged(self, RThrow(obj.err))
        ELSE LET w == write(self, PurgeLoop(obj.obj, variables, 1), ioOk)
             IN  IF Threw(w) THEN w ELSE [w EXCEPT !.ret = RThis]

\* Mutant of ensure: obj[variable] || defaultValue
ensureTruthy(self, variable, defaultValue) ==
    LET obj == toJSON(self)
    IN  IF ~obj.ok THEN RThrow(obj.err)
        ELSE IF In(variable, obj.obj) /\ ~Falsy(Prop(obj.obj, variable))
        THEN RValue(Prop(obj.obj, variable))
        ELSE RValue(defaultValue)

\* ensure(variable, defaultValue): variable in obj ? obj[variable] : defaultValue
ensure(self, variable, defaultValue) ==
    LET obj == toJSON(self)
    IN  IF ~obj.ok THEN RThrow(obj.err)
        ELSE IF In(variable, obj.obj) THEN RValue(Prop(obj.obj, variable))
        ELSE RValue(defaultValue)

\* { variable, value }
Pair(variable, value) == MapV(<<"variable", "value">>, <<Str(variable), value>>)

\* find(variable): { variable, value: this.get(variable) }
find(self, variable) ==
    LET value == get(self, variable)
    IN  IF value.kind = "throw" THEN value
        ELSE RValue(Pair(variable,
                         IF value.kind = "undefined" THEN UndefinedV ELSE value.v))

\* pick(...variables): for each variable that has() finds, { variable, get() }
RECURSIVE PickLoop(_, _, _, _)
PickLoop(self, variables, i, arr) ==
    IF i > Len(variables) THEN RValue(SeqV(arr))
    ELSE LET present == has(self, variables[i])
         IN  IF present.kind = "throw" THEN present
             ELSE IF ~present.b THEN PickLoop(self, variables, i + 1, arr)
             ELSE LET value == get(self, variables[i])
                  IN  IF value.kind = "throw" THEN value
                      ELSE PickLoop(self, variables, i + 1,
                                    Append(arr, Pair(variables[i],
                                        IF value.kind = "undefined"
                                        THEN UndefinedV ELSE value.v)))

\* Mutant of pick: a pair for every given variable, present or not
pickEvery(self, variables) ==
    IF ~toJSON(self).ok THEN RThrow(toJSON(self).err)
    ELSE RValue(SeqV([i \in 1..Len(variables) |->
                        Pair(variables[i],
                             IF get(self, variables[i]).kind = "undefined"
                             THEN UndefinedV ELSE get(self, variables[i]).v)]))

pick(self, variables) == PickLoop(self, variables, 1, <<>>)

Strings(ks) == [i \in 1..Len(ks) |-> Str(ks[i])]

\* keys(), as the caller gets it: Object.keys(obj) or the error of the load
keysOf(self) ==
    LET obj == toJSON(self)
    IN  IF ~obj.ok THEN RThrow(obj.err) ELSE RValue(SeqV(Strings(obj.obj.ks)))

\* get size(), as the caller gets it: this.keys().length
sizeOf(self) ==
    LET ks == keysOf(self)
    IN  IF ks.kind = "throw" THEN ks ELSE RNumber(Len(ks.v.e))

\* values(): Object.values(obj)
valuesOf(self) ==
    LET obj == toJSON(self)
    IN  IF ~obj.ok THEN RThrow(obj.err) ELSE RValue(SeqV(obj.obj.e))

\* entries(): Object.entries(obj)
entries(self) ==
    LET obj == toJSON(self)
    IN  IF ~obj.ok THEN RThrow(obj.err)
        ELSE RValue(SeqV([i \in 1..Len(obj.obj.ks) |->
                            SeqV(<<Str(obj.obj.ks[i]), obj.obj.e[i]>>)]))

\* data[i] || undefined, i counted from 0
ElementOrUndefined(data, i) ==
    IF i < 0 \/ i >= Len(data) THEN RUndefined
    ELSE IF Falsy(data[i + 1]) THEN RUndefined
    ELSE RValue(data[i + 1])

\* first(): data = this.values(); data[0] || undefined
first(self) ==
    LET data == valuesOf(self)
    IN  IF data.kind = "throw" THEN data ELSE ElementOrUndefined(data.v.e, 0)

\* last(): data = this.values(); data[this.size - 1] || undefined
lastOf(self) ==
    LET data == valuesOf(self)
        n == sizeOf(self)
    IN  IF data.kind = "throw" THEN data
        ELSE IF n.kind = "throw" THEN n
        ELSE ElementOrUndefined(data.v.e, n.n - 1)

\* indexOf(variable): this.keys().indexOf(variable)
indexOf(self, variable) ==
    LET ks == keysOf(self)
    IN  IF ks.kind = "throw" THEN ks
        ELSE IF \E i \in 1..Len(ks.v.e) : ks.v.e[i] = Str(variable)
        THEN RNumber((CHOOSE i \in 1..Len(ks.v.e) : ks.v.e[i] = Str(variable)) - 1)
        ELSE RNumber(-1)

----------------------------------------------------------------------------
(* forEach and map.  The callback of the model records its arguments as    *)
(* [value, key, index] (map returns these records), and on one of its      *)
(* invocations it may call a mutation of the store it iterates.            *)

\* a callback: on invocation number `at` (0: never) it runs store.<op>
Callback(at, op, k, v) == [at |-> at, op |-> op, k |-> k, v |-> v]
PureCallback == Callback(0, "none", "", NullV)

\* the index argument, a number
IndexValue(i) ==
    Num(CASE i = 0 -> "0" [] i = 1 -> "1" [] i = 2 -> "2" [] i = 3 -> "3")

\* Mutant of Record: the callback is given the key before the value
RecordKeyFirst(value, key, index) == SeqV(<<key, value, IndexValue(index)>>)

\* [value, key, index]
Record(value, key, index) == SeqV(<<value, key, IndexValue(index)>>)

\* the store after a call
After(self, o) ==
    [self EXCEPT !.exists = o.exists, !.file = o.file, !.cache = o.cache]

\* what invocation number i of the callback does to the store
Invoke(self, cb, i) ==
    IF cb.at # i THEN Unchanged(self, RNone)
    ELSE CASE cb.op = "set" -> set(self, cb.k, cb.v, TRUE)
           [] cb.op = "delete" -> delete(self, cb.k, TRUE)
           [] cb.op = "purge" -> purge(self, <<cb.k>>, TRUE)
           [] cb.op = "clear" -> clear(self, TRUE)
           [] OTHER -> Unchanged(self, RNone)

\* for (const variable in obj) { func(obj[variable], variable, i); i++ }
RECURSIVE ForEachLoop(_, _, _, _, _, _)
ForEachLoop(self, obj, cb, i, seen, writes) ==
    IF i > Len(obj.ks)
    THEN Outcome([RThis EXCEPT !.v = SeqV(seen)],
                 self.exists, self.file, self.cache, writes)
    ELSE LET o == Invoke(self, cb, i)
             called == Append(seen, Record(obj.e[i], Str(obj.ks[i]), i - 1))
         IN  IF Threw(o)
             THEN Outcome([o.ret EXCEPT !.v = SeqV(called)],
                          o.exists, o.file, o.cache, writes + o.nw)
             ELSE ForEachLoop(After(self, o), obj, cb, i + 1, called, writes + o.nw)

\* forEach(func): obj = this.toJSON(), then the loop; returns this.  The
\* invocations the callback has seen are kept in the v of the result.
forEach(self, cb) ==
    LET obj == toJSON(self)
    IN  IF ~obj.ok THEN Unchanged(self, RThrow(obj.err))
        ELSE ForEachLoop(self, obj.obj, cb, 1, <<>>, 0)

\* One element of Array.from({ length }, () => { keys = this.keys();
\* currentIndex++; return func(this.get(keys[currentIndex - 1]),
\* keys[currentIndex], currentIndex - 1) }), currentIndex being i afterwards.
\* keys[j] is undefined past the end, and get(undefined) looks up "undefined".
MapStep(self, i) ==
    LET ks == keysOf(self)
        value == IF ks.kind = "throw" THEN ks
                 ELSE get(self, IF i <= Len(ks.v.e) THEN ks.v.e[i].s ELSE "undefined")
    IN  IF value.kind = "throw" THEN value
        ELSE RValue(Record(IF value.kind = "undefined" THEN UndefinedV ELSE value.v,
                           IF i + 1 <= Len(ks.v.e) THEN ks.v.e[i + 1] ELSE UndefinedV,
                           i - 1))

RECURSIVE MapLoop(_, _, _, _, _, _)
MapLoop(self, length, cb, i, arr, writes) ==
    IF i > length
    THEN Outcome(RValue(SeqV(arr)), self.exists, self.file, self.cache, writes)
    ELSE LET step == MapStep(self, i)
             o == Invoke(self, cb, i)
         IN  IF step.kind = "throw"
             THEN Outcome(step, self.exists, self.file, self.cache, writes)
             ELSE IF Threw(o)
             THEN Outcome(o.ret, o.exists, o.file, o.cache, writes + o.nw)
             ELSE MapLoop(After(self, o), length, cb, i + 1,
                          Append(arr, step.v), writes + o.nw)

\* map(func): Array.from({ length: this.size }, ...)
map(self, cb) ==
    LET length == sizeOf(self)
    IN  IF length.kind = "throw" THEN Unchanged(self, length)
        ELSE MapLoop(self, length.n, cb, 1, <<>>, 0)

----------------------------------------------------------------------------
(* Inputs *)

Keys == {"a", "b"}

Num1 == Num("1")
Num2 == Num("2")

\* values given to set
SetValues ==
    {Str("1"), Bool("false"),
     SeqV(<<Num1, Num2, Num1>>),
     MapV(<<"x">>, <<Num1>>), MapV(<<"y">>, <<Num2>>)}

\* values given to push and pull
Elements == {Num1, Num2}

ArgLists == UNION {[1..n -> Elements] : n \in 0..MaxArgs}

DefaultEntries ==
    {[variable |-> "a", value |-> Bool("true")],
     [variable |-> "a", value |-> Str("John")],
     [variable |-> "b", value |-> SeqV(<<Num1>>)]}

DefaultLists == UNION {[1..n -> DefaultEntries] : n \in 0..MaxDefaults}

OptionsSet ==
    {NoOptions} \cup
    {[model |-> TRUE, ready |-> r, defaultModelValues |-> d] :
        r \in {"undefined", "false", "true"}, d \in DefaultLists}

Variants == {"model", "plain", "cached"}

\* only the constructor of the store with a model takes options
OptionsOf(variant) == IF variant = "model" THEN OptionsSet ELSE {NoOptions}

Paths ==
    {<<"d", "b", ".", "y", "a", "m", "l">>,
     <<"d", "b", ".", "y", "m", "l">>,
     <<"d", "b", ".", "j", "s", "o", "n">>,
     <<"d", "b", "y", "a", "m", "l">>}

\* What the file may hold before the store is constructed: written by hand
\* (any scalar style) or by an earlier run of the store.
InitFiles ==
    {EmptyFile, FlowEmptyFile, MalformedFile,
     BlockFile(<<"a">>, <<Plain("false")>>),
     BlockFile(<<"b">>, <<Quoted("John")>>),
     BlockFile(<<"a", "b">>,
               <<Plain("~"),
                 [style |-> "seq", text |-> "", ks |-> <<>>,
                  e |-> <<Plain("1"), Plain("2"), Plain("1")>>]>>)}

----------------------------------------------------------------------------
(* State *)

\* The last call: its name and arguments, what it returned or threw, how
\* many writes it made, the file it found, and how many clear() calls in a
\* row have succeeded up to and including it (counted to two).
Call(op, k, args, options, o) ==
    [op |-> op, k |-> k, args |-> args, options |-> options,
     ret |-> o.ret, nw |-> o.nw, pre |-> file, preExists |-> exists,
     cleared |-> IF op = "clear" /\ ~Threw(o)
                 THEN (IF last.cleared >= 1 THEN 2 ELSE 1)
                 ELSE 0]

NoCall ==
    [op |-> "none", k |-> "", args |-> <<>>, options |-> NoOptions,
     ret |-> RNone, nw |-> 0, pre |-> EmptyFile, preExists |-> FALSE,
     cleared |-> 0]

this == Self(db.variant, exists, file, cache)

\* no call is under way: the caller is between two calls
Idle == last.op = "none"

\* one store alone on the path: no other store has a mutation under way
NoWriters == <<>>

Init ==
    /\ path \in Paths
    /\ exists \in BOOLEAN
    /\ file \in (IF exists THEN InitFiles ELSE {EmptyFile})
    /\ db = [constructed |-> FALSE, variant |-> "none"]
    /\ cache = EmptyObj
    /\ last = NoCall
    /\ writers = NoWriters

\* a method call ends: its effects on the file system and the cache
Done(op, k, args, o) ==
    /\ exists' = o.exists
    /\ file' = o.file
    /\ cache' = o.cache
    /\ last' = Call(op, k, args, NoOptions, o)
    /\ UNCHANGED <<path, db, writers>>

Construct(variant, options, failAt) ==
    /\ Idle
    /\ ~db.constructed
    /\ LET o == construct(variant, path, Self(variant, exists, file, EmptyObj),
                          options, failAt)
       IN  /\ db' = [constructed |-> ~Threw(o),
                     variant |-> IF Threw(o) THEN "none" ELSE variant]
           /\ exists' = o.exists
           /\ file' = o.file
           /\ cache' = IF Threw(o) THEN EmptyObj ELSE o.cache
           /\ last' = Call("new", variant, <<>>, options, o)
           /\ UNCHANGED <<path, writers>>

Set(k, v, ioOk) ==
    /\ Idle
    /\ db.constructed
    /\ Done("set", k, <<v>>, set(this, k, v, ioOk))

Delete(k, ioOk) ==
    /\ Idle
    /\ db.constructed
    /\ Done("delete", k, <<>>, delete(this, k, ioOk))

Clear(ioOk) ==
    /\ Idle
    /\ db.constructed
    /\ Done("clear", "", <<>>, clear(this, ioOk))

Get(k) ==
    /\ Idle
    /\ db.constructed
    /\ Done("get", k, <<>>, Unchanged(this, get(this, k)))

Has(k) ==
    /\ Idle
    /\ db.constructed
    /\ Done("has", k, <<>>, Unchanged(this, has(this, k)))

Push(k, values, ioOk) ==
    /\ Idle
    /\ db.constructed
    /\ db.variant = "model"
    /\ LET o == push(this, k, values, ioOk)
       IN  /\ o.ret.kind = "number" => o.ret.n <= MaxSeqLen
           /\ Done("push", k, values, o)

Pull(k, values, ioOk) ==
    /\ Idle
    /\ db.constructed
    /\ db.variant = "model"
    /\ Done("pull", k, values, pull(this, k, values, ioOk))

\* the environment removes the file behind the store
Unlink ==
    /\ Idle
    /\ db.constructed
    /\ exists
    /\ exists' = FALSE
    /\ file' = EmptyFile
    /\ last' = [NoCall EXCEPT !.op = "unlink", !.pre = file, !.preExists = TRUE]
    /\ UNCHANGED <<path, db, cache, writers>>

\* the caller takes the result of its call and goes on to the next one
Continue ==
    /\ ~Idle
    /\ last' = [NoCall EXCEPT !.cleared = last.cleared]
    /\ UNCHANGED <<path, exists, file, db, cache, writers>>

Next ==
    \/ \E variant \in Variants, failAt \in 0..MaxDefaults :
          \E options \in OptionsOf(variant) : Construct(variant, options, failAt)
    \/ \E k \in Keys, v \in SetValues, ioOk \in BOOLEAN : Set(k, v, ioOk)
    \/ \E k \in Keys, ioOk \in BOOLEAN : Delete(k, ioOk)
    \/ \E ioOk \in BOOLEAN : Clear(ioOk)
    \/ \E k \in Keys : Get(k)
    \/ \E k \in Keys : Has(k)
    \/ \E k \in Keys, values \in ArgLists : Push(k, values, TRUE)
    \/ \E k \in Keys, values \in ArgLists : Pull(k, values, TRUE)
    \/ Unlink
    \/ Continue

Spec == Init /\ [][Next]_vars

----------------------------------------------------------------------------
(* The whole interface of the store with a model: three variables, purge,  *)
(* every query, forEach and map, sequences of sequences and mappings.      *)

ApiKeys == Keys \cup {"c"}

\* elements that are themselves a sequence or a mapping
Composites == {SeqV(<<Num1>>), MapV(<<"x">>, <<Num1>>)}

\* a stored sequence of MaxSeqLen such elements, both kinds in turn
FullSeq ==
    SeqV([i \in 1..MaxSeqLen |->
            IF i % 2 = 1 THEN SeqV(<<Num1>>) ELSE MapV(<<"x">>, <<Num1>>)])

ApiValues == {Bool("false"), Str("John"), FullSeq, MapV(<<"x">>, <<Num1>>)}

ApiArgLists == UNION {[1..n -> Composites] : n \in 0..MaxArgs}

\* the variables given to purge and pick
KeyLists == UNION {[1..n -> ApiKeys] : n \in 0..MaxPicked}

\* what a callback may do to the store it iterates
CallbackSteps == 1..2

Callbacks ==
    {PureCallback} \cup
    {Callback(at, "set", "c", Str("John")) : at \in CallbackSteps} \cup
    {Callback(at, "set", "a", Bool("false")) : at \in CallbackSteps} \cup
    {Callback(at, "delete", "b", NullV) : at \in CallbackSteps} \cup
    {Callback(at, "purge", "a", NullV) : at \in CallbackSteps} \cup
    {Callback(at, "clear", "", NullV) : at \in CallbackSteps}

ApiFiles ==
    {EmptyFile, MalformedFile,
     Dump(Obj(<<"b", "a">>, <<Bool("false"), FullSeq>>))}

InitApi ==
    /\ path = <<"d", "b", ".", "y", "a", "m", "l">>
    /\ exists = TRUE
    /\ file \in ApiFiles
    /\ db = [constructed |-> FALSE, variant |-> "none"]
    /\ cache = EmptyObj
    /\ last = NoCall
    /\ writers = NoWriters

Purge(variables, ioOk) ==
    /\ Idle
    /\ db.constructed
    /\ Done("purge", "", Strings(variables), purge(this, variables, ioOk))

Ensure(k, defaultValue) ==
    /\ Idle
    /\ db.constructed
    /\ Done("ensure", k, <<defaultValue>>, Unchanged(this, ensure(this, k, defaultValue)))

Find(k) ==
    /\ Idle
    /\ db.constructed
    /\ Done("find", k, <<>>, Unchanged(this, find(this, k)))

Pick(variables) ==
    /\ Idle
    /\ db.constructed
    /\ Done("pick", "", Strings(variables), Unchanged(this, pick(this, variables)))

SizeOf ==
    /\ Idle
    /\ db.constructed
    /\ Done("size", "", <<>>, Unchanged(this, sizeOf(this)))

Entries ==
    /\ Idle
    /\ db.constructed
    /\ Done("entries", "", <<>>, Unchanged(this, entries(this)))

KeysOf ==
    /\ Idle
    /\ db.constructed
    /\ Done("keys", "", <<>>, Unchanged(this, keysOf(this)))

ValuesOf ==
    /\ Idle
    /\ db.constructed
    /\ Done("values", "", <<>>, Unchanged(this, valuesOf(this)))

First ==
    /\ Idle
    /\ db.constructed
    /\ Done("first", "", <<>>, Unchanged(this, first(this)))

Last ==
    /\ Idle
    /\ db.constructed
    /\ Done("last", "", <<>>, Unchanged(this, lastOf(this)))

IndexOf(k) ==
    /\ Idle
    /\ db.constructed
    /\ Done("indexOf", k, <<>>, Unchanged(this, indexOf(this, k)))

ForEach(cb) ==
    /\ Idle
    /\ db.constructed
    /\ Done("forEach", "", <<cb>>, forEach(this, cb))

Map(cb) ==
    /\ Idle
    /\ db.constructed
    /\ Done("map", "", <<cb>>, map(this, cb))

NextApi ==
    \/ Construct("model", NoOptions, 0)
    \/ \E k \in ApiKeys, v \in ApiValues : Set(k, v, TRUE)
    \/ \E k \in ApiKeys : Delete(k, TRUE)
    \/ Clear(TRUE)
    \/ \E variables \in KeyLists : Purge(variables, TRUE)
    \/ \E k \in ApiKeys, values \in ApiArgLists : Push(k, values, TRUE)
    \/ \E k \in ApiKeys, values \in ApiArgLists : Pull(k, values, TRUE)
    \/ \E k \in ApiKeys : Get(k)
    \/ \E k \in ApiKeys : Has(k)
    \/ \E k \in ApiKeys, d \in {Str("John"), NullV} : Ensure(k, d)
    \/ \E k \in ApiKeys : Find(k)
    \/ \E variables \in KeyLists : Pick(variables)
    \/ SizeOf
    \/ Entries
    \/ KeysOf
    \/ ValuesOf
    \/ First
    \/ Last
    \/ \E k \in ApiKeys : IndexOf(k)
    \/ \E cb \in Callbacks : ForEach(cb)
    \/ \E cb \in Callbacks : Map(cb)
    \/ Unlink
    \/ Continue

SpecApi == InitApi /\ [][NextApi]_vars

----------------------------------------------------------------------------
(* Vocabulary of the properties *)

\* the keys written in a file
FileKeys(f) == {f.ks[i] : i \in 1..Len(f.ks)}

\* a file that exists and that js-yaml can parse
Loadable(f) == f.kind # "malformed"

\* the document a file holds
Document(f) == load(Self("model", TRUE, f, EmptyObj)).obj

PreDoc == Document(last.pre)
PostDoc == Document(file)

KeySet(obj) == {obj.ks[i] : i \in 1..Len(obj.ks)}

\* every key other than k is in both documents or in neither, with one value
SameExcept(d1, d2, k) ==
    \A k2 \in (KeySet(d1) \cup KeySet(d2)) \ {k} :
        /\ In(k2, d1)
        /\ In(k2, d2)
        /\ Prop(d1, k2) = Prop(d2, k2)

Returned == last.op # "none" /\ last.ret.kind # "throw"

\* the call found a file it could load
FoundDocument == last.preExists /\ Loadable(last.pre)

----------------------------------------------------------------------------
(* C1..C10 *)

\* C1: has(k) is false and get(k) is undefined for a key k that is not in the
\* document; after a set(k, v) that succeeded, get(k) returns v and has(k) is
\* true, whether or not k was in the document.
C1_SetThenGet ==
    /\ (last.op = "has" /\ FoundDocument /\ last.k \notin FileKeys(last.pre))
          => last.ret = RBool(FALSE)
    /\ (last.op = "get" /\ FoundDocument /\ last.k \notin FileKeys(last.pre))
          => last.ret = RUndefined
    /\ (last.op = "set" /\ Returned)
          => /\ get(this, last.k) = RValue(last.args[1])
             /\ has(this, last.k) = RBool(TRUE)

\* C1 witness: set of a string that reads like a number, on a key that was absent
C1_Witness ==
    /\ last.op = "set"
    /\ Returned
    /\ last.k \notin FileKeys(last.pre)
    /\ last.args[1] = Str("1")

\* C2: set(k, v) replaces the value of k wholesale, leaves every other key and
\* its value alone, adds no other key, writes exactly once and returns the store.
C2_SetFrame ==
    (last.op = "set" /\ Returned)
        => /\ In(last.k, PostDoc)
           /\ Prop(PostDoc, last.k) = last.args[1]
           /\ SameExcept(PreDoc, PostDoc, last.k)
           /\ KeySet(PostDoc) = KeySet(PreDoc) \cup {last.k}
           /\ last.nw = 1
           /\ last.ret = RThis

\* C2 witness: a mapping set over another mapping, beside another key
C2_Witness ==
    /\ last.op = "set"
    /\ Returned
    /\ In(last.k, PreDoc)
    /\ Prop(PreDoc, last.k) = MapV(<<"x">>, <<Num1>>)
    /\ last.args[1] = MapV(<<"y">>, <<Num2>>)
    /\ Len(PreDoc.ks) = 2

HasYamlExtension == EndsWith(path, DotYaml) \/ EndsWith(path, DotYml)

\* C3: in every variant, construction against an existing file whose path ends
\* in .yaml or .yml raises neither the not-found nor the invalid-extension error.
C3_ConstructAccepts ==
    (last.op = "new" /\ last.preExists /\ HasYamlExtension)
        => ~(last.ret.kind = "throw"
             /\ last.ret.msg \in {ErrNotFound, ErrExtension, ErrExtensionCached})

\* C4: construction against a path that does not exist throws the not-found
\* error and does not create the file; against an existing path that ends in
\* neither .yaml nor .yml it throws the invalid-extension error; the file
\* system is as it was in both cases.
C4_ConstructRejects ==
    /\ (last.op = "new" /\ ~last.preExists)
          => /\ last.ret = RThrow(ErrNotFound)
             /\ ~exists
             /\ file = last.pre
             /\ last.nw = 0
    /\ (last.op = "new" /\ last.preExists /\ ~HasYamlExtension)
          => /\ last.ret.kind = "throw"
             /\ last.ret.msg \in {ErrExtension, ErrExtensionCached}
             /\ exists
             /\ file = last.pre
             /\ last.nw = 0

\* C4 witness: a store with defaults to seed, on an existing file named db.json
C4_Witness ==
    /\ last.op = "new"
    /\ last.k = "model"
    /\ last.preExists
    /\ ~HasYamlExtension
    /\ last.options.ready = "true"
    /\ Len(last.options.defaultModelValues) > 0
    /\ last.pre = EmptyFile

Seeded ==
    /\ last.op = "new"
    /\ Returned
    /\ last.options.model
    /\ last.options.ready = "true"
    /\ Len(last.options.defaultModelValues) > 0

Defaults == last.options.defaultModelValues

\* C5 as stated: after construction with setValuesOnReady = true, get returns
\* the default value for every default entry whose variable was absent from
\* the file, and every variable that was present keeps its value.
C5_EveryDefaultApplied ==
    Seeded
        => /\ \A i \in 1..Len(Defaults) :
                  Defaults[i].variable \notin FileKeys(last.pre)
                      => get(this, Defaults[i].variable) = RValue(Defaults[i].value)
           /\ \A k \in KeySet(PreDoc) :
                  get(this, k) = RValue(Prop(PreDoc, k))

FirstEntry(variable) ==
    CHOOSE i \in 1..Len(Defaults) :
        /\ Defaults[i].variable = variable
        /\ \A j \in 1..(i - 1) : Defaults[j].variable # variable

\* C5 amended: for every default variable that was absent from the file, get
\* returns the value of the first entry of the list that names it, and every
\* variable that was present keeps its value.
C5_FirstDefaultApplied ==
    Seeded
        => /\ \A i \in 1..Len(Defaults) :
                  Defaults[i].variable \notin FileKeys(last.pre)
                      => get(this, Defaults[i].variable)
                            = RValue(Defaults[FirstEntry(Defaults[i].variable)].value)
           /\ \A k \in KeySet(PreDoc) :
                  get(this, k) = RValue(Prop(PreDoc, k))

\* C5 witness: a holds false in the file and has a default, b is absent and seeded
C5_Witness ==
    /\ Seeded
    /\ In("a", PreDoc)
    /\ Prop(PreDoc, "a") = Bool("false")
    /\ ~In("b", PreDoc)
    /\ \E i \in 1..Len(Defaults) : Defaults[i].variable = "a"
    /\ \E i \in 1..Len(Defaults) : Defaults[i].variable = "b"
    /\ last.nw = 1

\* C6: delete(k) of a key that is not in the document writes nothing, leaves
\* the file as it is and throws nothing; delete(k) of a key that is in it
\* removes k alone, keeps every other key and value, and writes exactly once.
C6_DeleteFrame ==
    /\ (last.op = "delete" /\ FoundDocument /\ last.k \notin FileKeys(last.pre))
          => /\ last.ret = RThis
             /\ last.nw = 0
             /\ file = last.pre
    /\ (last.op = "delete" /\ Returned /\ last.k \in FileKeys(last.pre))
          => /\ ~In(last.k, PostDoc)
             /\ SameExcept(PreDoc, PostDoc, last.k)
             /\ KeySet(PostDoc) = KeySet(PreDoc) \ {last.k}
             /\ last.nw = 1

\* C6 witness: a key deleted from a document of two keys
C6_Witness ==
    /\ last.op = "delete"
    /\ Returned
    /\ last.k \in FileKeys(last.pre)
    /\ Len(PreDoc.ks) = 2
    /\ Len(PostDoc.ks) = 1

\* C7: after clear() the document is empty (size 0, no keys) and the file is
\* zero-length, and a second clear() leaves the same empty document and file.
C7_ClearIdempotent ==
    (last.op = "clear" /\ Returned)
        => /\ file = EmptyFile
           /\ size(this) = 0
           /\ keys(this) = <<>>
           /\ last.cleared = 2 => file = last.pre

\* C7 witness: the second of two clear() calls in a row
C7_Witness ==
    /\ last.op = "clear"
    /\ Returned
    /\ last.cleared = 2

\* C8: push and pull on a key that is not in the document return -1, write
\* nothing and leave the file as it is.
C8_PushPullAbsent ==
    (last.op \in {"push", "pull"} /\ FoundDocument /\ last.k \notin FileKeys(last.pre))
        => /\ last.ret = RNumber(-1)
           /\ last.nw = 0
           /\ file = last.pre

\* C8 witness: push of two values on a key that is absent from a document
C8_Witness ==
    /\ last.op = "push"
    /\ FoundDocument
    /\ last.k \notin FileKeys(last.pre)
    /\ Len(last.pre.ks) = 1
    /\ Len(last.args) = 2

PreTarget == Prop(PreDoc, last.k)

OnSequence ==
    /\ Returned
    /\ In(last.k, PreDoc)
    /\ PreTarget.t = "seq"

\* C9: push(k, v1..vn) on a key holding the sequence S persists S followed by
\* v1..vn, leaves every other key alone, writes exactly once and returns
\* length(S) + n.
C9_PushAppends ==
    (last.op = "push" /\ OnSequence)
        => /\ In(last.k, PostDoc)
           /\ Prop(PostDoc, last.k) = SeqV(PreTarget.e \o last.args)
           /\ SameExcept(PreDoc, PostDoc, last.k)
           /\ KeySet(PostDoc) = KeySet(PreDoc)
           /\ last.nw = 1
           /\ last.ret = RNumber(Len(PreTarget.e) + Len(last.args))

\* C9 witness: two different values pushed on a non-empty sequence beside another key
C9_Witness ==
    /\ last.op = "push"
    /\ OnSequence
    /\ Len(PreTarget.e) > 0
    /\ Len(last.args) = 2
    /\ last.args[1] # last.args[2]
    /\ Len(PreDoc.ks) = 2

Given(v) == \E i \in 1..Len(last.args) : last.args[i] = v

NotGiven(v) == ~Given(v)

----------------------------------------------------------------------------
(* Sequences of sequences and mappings *)

PostTarget == Prop(PostDoc, last.k)

\* C11: pull compares sequences and mappings by their structure: after
\* pull(k, c) on a key holding a sequence, no element that is a sequence or a
\* mapping structurally equal to a given value is left in it.
C11_PullStructural ==
    (last.op = "pull" /\ OnSequence)
        => /\ In(last.k, PostDoc)
           /\ \A i \in 1..Len(PostTarget.e) :
                 ~IsScalar(PostTarget.e[i]) => NotGiven(PostTarget.e[i])

----------------------------------------------------------------------------
(* push followed by pull *)

\* the sequence under k when pull(k, the values just pushed) has returned
PulledBack ==
    Prop(Document(pull(this, last.k, last.args, TRUE).file), last.k)

\* no value just given occurs in the sequence the call found
FreshValues == \A i \in 1..Len(PreTarget.e) : NotGiven(PreTarget.e[i])

ScalarValues == \A i \in 1..Len(last.args) : IsScalar(last.args[i])

----------------------------------------------------------------------------
(* purge and pick *)

\* the variables given to purge or pick
GivenKeys == {last.args[i].s : i \in 1..Len(last.args)}

KeptKey(k) == k \notin GivenKeys

\* C13: purge(k1..kn) removes exactly the given keys that are present, leaves
\* every other key with its value and in its order, writes exactly once
\* whatever the number of keys removed, and returns the store; when every
\* key of the document is given, the file is left with length zero.
C13_PurgeRemovesGiven ==
    (last.op = "purge" /\ Returned /\ FoundDocument)
        => /\ PostDoc.ks = SelectSeq(PreDoc.ks, KeptKey)
           /\ \A k \in KeySet(PostDoc) : Prop(PostDoc, k) = Prop(PreDoc, k)
           /\ last.nw = 1
           /\ last.ret = RThis
           /\ (KeySet(PreDoc) \subseteq GivenKeys) => file = EmptyFile

\* C13 witness: of two given keys one is present, and another key stays
C13_Witness ==
    /\ last.op = "purge"
    /\ Returned
    /\ FoundDocument
    /\ Cardinality(GivenKeys) = 2
    /\ Cardinality(GivenKeys \cap KeySet(PreDoc)) = 1
    /\ Cardinality(KeySet(PostDoc)) = 1
    /\ last.nw = 1

\* C13 witness: no given key is present, and the file is written all the same
C13_WitnessNoneRemoved ==
    /\ last.op = "purge"
    /\ Returned
    /\ FoundDocument
    /\ GivenKeys \cap KeySet(PreDoc) = {}
    /\ KeySet(PreDoc) # {}
    /\ last.nw = 1

----------------------------------------------------------------------------
(* first, last, forEach and map *)

\* C14: on a document with at least one key, whatever its values, first()
\* returns the value of the first key and last() the value of the last key;
\* undefined is returned only when the document has no key.
C14_FirstLast ==
    (last.op \in {"first", "last"} /\ Returned /\ FoundDocument)
        => IF Len(PreDoc.ks) = 0 THEN last.ret = RUndefined
           ELSE last.ret = RValue(PreDoc.e[IF last.op = "first" THEN 1
                                           ELSE Len(PreDoc.e)])

\* the callback of the call that returned, and what it was invoked with
TheCallback == last.args[1]
Seen == last.ret.v.e

\* (vi, ki, i) for the pairs of the document the call found, in its order
SnapshotRecords ==
    [i \in 1..Len(PreDoc.ks) |->
        SeqV(<<PreDoc.e[i], Str(PreDoc.ks[i]), IndexValue(i - 1)>>)]

Iterated(op) ==
    /\ last.op = op
    /\ Returned
    /\ FoundDocument

\* C15: on a document of n pairs (k0, v0) .. (kn-1, vn-1), map(fn) with a
\* callback that leaves the store alone invokes fn n times, the i-th time as
\* fn(vi, ki, i) with ki the key that holds vi, and returns the n results in
\* that order.
C15_MapArguments ==
    (Iterated("map") /\ TheCallback = PureCallback)
        => last.ret = RValue(SeqV(SnapshotRecords))

C17_Snapshot ==
    (last.op \in {"forEach", "map"} /\ Returned /\ FoundDocument
       /\ TheCallback # PureCallback)
        => /\ Len(Seen) = Len(PreDoc.ks)
           /\ \A i \in 1..Len(Seen) :
                 /\ Seen[i].e[1] = PreDoc.e[i]
                 /\ Seen[i].e[3] = IndexValue(i - 1)
                 /\ last.op = "forEach" => Seen[i].e[2] = Str(PreDoc.ks[i])

----------------------------------------------------------------------------
(* Queries *)

\* the given variables that are in the document, in the order given
GivenPresent == SelectSeq(last.args, LAMBDA a : In(a.s, PreDoc))

\* C18: pick(k1..kn) returns, in the order of its arguments, one pair
\* {variable: ki, value: get(ki)} for each ki that is present and none for a
\* ki that is absent: as many pairs as given keys that are present.
C18_PickPresent ==
    (last.op = "pick" /\ Returned /\ FoundDocument)
        => /\ last.ret.kind = "value"
           /\ last.ret.v.t = "seq"
           /\ Len(last.ret.v.e) = Len(GivenPresent)
           /\ \A i \in 1..Len(GivenPresent) :
                 last.ret.v.e[i] =
                     MapV(<<"variable", "value">>,
                          <<GivenPresent[i], get(this, GivenPresent[i].s).v>>)

\* C18 witness: an absent key is given before a present one
C18_Witness ==
    /\ last.op = "pick"
    /\ Returned
    /\ FoundDocument
    /\ Len(last.args) = 2
    /\ ~In(last.args[1].s, PreDoc)
    /\ In(last.args[2].s, PreDoc)
    /\ Len(last.ret.v.e) = 1

QueryOps ==
    {"get", "has", "ensure", "find", "pick", "size", "entries", "keys",
     "values", "first", "last", "indexOf"}

\* C19: get, has, ensure, find, pick, size, entries, keys, values, first,
\* last and indexOf write nothing and leave the file as it was; ensure(k, d)
\* returns d when k is absent, and has(k) is still false afterwards; it
\* returns the stored value when k is present.
C19_QueriesWriteNothing ==
    /\ last.op \in QueryOps
          => /\ last.nw = 0
             /\ file = last.pre
             /\ exists = last.preExists
    /\ (last.op = "ensure" /\ Returned /\ FoundDocument)
          => IF In(last.k, PreDoc)
             THEN last.ret = RValue(Prop(PreDoc, last.k))
             ELSE /\ last.ret = RValue(last.args[1])
                  /\ has(this, last.k) = RBool(FALSE)

\* C19 witness: ensure of an absent key on a document with other keys
C19_Witness ==
    /\ last.op = "ensure"
    /\ Returned
    /\ FoundDocument
    /\ ~In(last.k, PreDoc)
    /\ Len(PreDoc.ks) = 2
    /\ last.ret = RValue(Str("John"))
    /\ file = last.pre

----------------------------------------------------------------------------
(* The file removed behind the store *)

Mutations == {"set", "delete", "clear", "purge", "push", "pull"}

Methods == QueryOps \cup Mutations \cup {"forEach", "map"}

\* the call goes to _load or _write: every method does, except pick without
\* a variable, which returns [] at once
LoadsOrWrites == last.op \in Methods /\ ~(last.op = "pick" /\ Len(last.args) = 0)

\* C20: once the file is removed behind a constructed store, every call that
\* loads or writes (every query and every mutation, clear included) throws
\* the error of the missing file, and no call brings the file back.
C20_RemovedFile ==
    (last.op \in Methods /\ ~last.preExists)
        => /\ ~exists
           /\ last.nw = 0
           /\ LoadsOrWrites => last.ret = RThrow(ErrDeleted)

\* C20 witness: clear, which never loads, is called after the file is gone
C20_Witness ==
    /\ last.op = "clear"
    /\ ~last.preExists
    /\ ~exists
    /\ last.ret = RThrow(ErrDeleted)

----------------------------------------------------------------------------
(* push and pull on a value that is no sequence *)

OnNonSequence ==
    /\ FoundDocument
    /\ In(last.k, PreDoc)
    /\ PreTarget.t # "seq"

\* C21: push(k, ...) and pull(k, ...) on a key that is present with a value
\* that is no sequence (a string, number, boolean, null or mapping) throw,
\* write nothing and leave the document as it was, whatever the number of
\* values given, zero included.
C21_NonSequenceRejected ==
    (last.op \in {"push", "pull"} /\ OnNonSequence)
        => /\ last.ret.kind = "throw"
           /\ last.nw = 0
           /\ file = last.pre

----------------------------------------------------------------------------
(* Reads after writes *)

\* the document after the first n defaults whose variable is absent are set
RECURSIVE SeedDoc(_, _, _, _)
SeedDoc(doc, defaults, i, n) ==
    IF i > Len(defaults) \/ n = 0 THEN doc
    ELSE IF In(defaults[i].variable, doc) THEN SeedDoc(doc, defaults, i + 1, n)
    ELSE SeedDoc(Assign(doc, defaults[i].variable, defaults[i].value),
                 defaults, i + 1, n - 1)

\* the document given to the last _write that went through during the call
WrittenDoc ==
    CASE last.op = "set" -> Assign(PreDoc, last.k, last.args[1])
      [] last.op = "delete" -> DeleteProp(PreDoc, last.k)
      [] last.op = "clear" -> EmptyObj
      [] last.op = "purge" -> PurgeLoop(PreDoc, [i \in 1..Len(last.args) |-> last.args[i].s], 1)
      [] last.op = "push" -> Assign(PreDoc, last.k, SeqV(PreTarget.e \o last.args))
      [] last.op = "pull" ->
            IF PreTarget.t = "seq"
            THEN Assign(PreDoc, last.k, SeqV(SelectSeq(PreTarget.e, NotGiven)))
            ELSE PreDoc
      [] last.op = "new" ->
            SeedDoc(PreDoc, last.options.defaultModelValues, 1, last.nw)

\* every read of the store returns what doc holds
ReadsReflect(doc) ==
    /\ keysOf(this) = RValue(SeqV([i \in 1..Len(doc.ks) |-> Str(doc.ks[i])]))
    /\ valuesOf(this) = RValue(SeqV(doc.e))
    /\ entries(this) =
          RValue(SeqV([i \in 1..Len(doc.ks) |-> SeqV(<<Str(doc.ks[i]), doc.e[i]>>)]))
    /\ sizeOf(this) = RNumber(Len(doc.ks))
    /\ \A k \in Keys :
          /\ has(this, k) = RBool(In(k, doc))
          /\ get(this, k) = IF In(k, doc) THEN RValue(Prop(doc, k)) ELSE RUndefined

\* C22: with no other writer, every read (get, has, keys, values, entries,
\* size) reflects the document given to the latest write of the store that
\* went through: a call that wrote leaves reads that return that document,
\* and a call that wrote nothing, failed or not, leaves the file as it was.
C22_ReadsReflectLastWrite ==
    /\ (last.op \notin {"none", "unlink"} /\ last.nw = 0)
          => /\ file = last.pre
             /\ exists = last.preExists
    /\ (last.op \notin {"none", "unlink"} /\ last.nw > 0)
          => ReadsReflect(WrittenDoc)

\* C22 witness: a string that reads like a number is written beside another
\* key and read back as that string
C22_Witness ==
    /\ last.op = "set"
    /\ last.nw = 1
    /\ last.args = <<Str("1")>>
    /\ Len(PreDoc.ks) = 1
    /\ ~In(last.k, PreDoc)
    /\ get(this, last.k) = RValue(Str("1"))

----------------------------------------------------------------------------
(* The cache of the cached store *)

CacheMutations == {"set", "delete", "clear"}

\* C23: in the cached store, after construction and after every set, delete
\* and clear that succeeds, the cache holds exactly the pairs of the document
\* in the file: the same keys, each with the same value; after clear() it is
\* empty.
C23_CacheMirrors ==
    /\ (last.op = "new" /\ last.k = "cached" /\ HasYamlExtension /\ FoundDocument)
          => /\ db.constructed
             /\ db.variant = "cached"
             /\ cache = PostDoc
    /\ (db.variant = "cached" /\ last.op \in CacheMutations /\ Returned)
          => /\ cache = PostDoc
             /\ last.op = "clear" => cache = EmptyObj

\* The constructor of the cached store throws for every path (C3), so no
\* cached store is made by new.  Its methods are checked on a store in the
\* state _init establishes past its two tests: the cache filled from the
\* document of the file.
InitCached ==
    /\ path \in {p \in Paths : EndsWith(p, DotYaml) \/ EndsWith(p, DotYml)}
    /\ exists = TRUE
    /\ file \in {f \in InitFiles : Loadable(f)}
    /\ db = [constructed |-> TRUE, variant |-> "cached"]
    /\ cache = Document(file)
    /\ last = NoCall
    /\ writers = NoWriters

NextCached ==
    \/ \E k \in Keys, v \in SetValues, ioOk \in BOOLEAN : Set(k, v, ioOk)
    \/ \E k \in Keys, ioOk \in BOOLEAN : Delete(k, ioOk)
    \/ \E ioOk \in BOOLEAN : Clear(ioOk)
    \/ \E k \in Keys : Get(k)
    \/ \E k \in Keys : Has(k)
    \/ Unlink
    \/ Continue

SpecCached == InitCached /\ [][NextCached]_vars

----------------------------------------------------------------------------
(* The file after a write *)

\* C25: after every write made by set, delete, purge, clear, push or pull,
\* the file is zero-length exactly when the document has no key: deleting or
\* purging the last key leaves a zero-length file, not the mapping "{}".
C25_EmptyIffNoKeys ==
    (last.op \in Mutations /\ last.nw > 0)
        => /\ exists
           /\ (file = EmptyFile) <=> (Len(WrittenDoc.ks) = 0)
           /\ (file = EmptyFile) <=> (Len(PostDoc.ks) = 0)
           /\ (last.op = "purge") => PostDoc.ks = SelectSeq(PreDoc.ks, KeptKey)

\* C25 witness: the only key of the document is deleted
C25_Witness ==
    /\ last.op = "delete"
    /\ last.nw = 1
    /\ Len(PreDoc.ks) = 1
    /\ file = EmptyFile

\* C26: pull(k, ...) on a key holding a sequence writes exactly once, also
\* when none of the given values occurs in the sequence and when no value is
\* given; the document is then what it was and the length returned is that
\* of the sequence as it was.
C26_PullAlwaysWrites ==
    (last.op = "pull" /\ OnSequence)
        => /\ last.nw = 1
           /\ FreshValues
                 => /\ PostDoc = PreDoc
                    /\ last.ret = RNumber(Len(PreTarget.e))

\* C26 witness: a value that is not in the sequence is pulled
C26_Witness ==
    /\ last.op = "pull"
    /\ OnSequence
    /\ FreshValues
    /\ Len(last.args) = 1
    /\ Len(PreTarget.e) > 0
    /\ last.nw = 1

----------------------------------------------------------------------------
(* Construction and its writes *)

\* the constructor has nothing to seed: no options, setValuesOnReady not
\* true, no default, or every default variable already in the document
NothingToSeed ==
    \/ ~last.options.model
    \/ last.options.ready # "true"
    \/ Len(Defaults) = 0
    \/ /\ FoundDocument
       /\ \A i \in 1..Len(Defaults) : In(Defaults[i].variable, PreDoc)

\* C27: construction writes nothing and leaves the file as it is when no
\* options are given, when setValuesOnReady is not true, when the list of
\* defaults is empty, and when every default variable is already present.
C27_ConstructWritesNothing ==
    (last.op = "new" /\ NothingToSeed)
        => /\ last.nw = 0
           /\ file = last.pre
           /\ exists = last.preExists

\* C27 witness: a store is constructed with setValuesOnReady false and a
\* default for a variable that the file does not hold
C27_Witness ==
    /\ last.op = "new"
    /\ Returned
    /\ last.options.model
    /\ last.options.ready = "false"
    /\ Len(Defaults) > 0
    /\ FoundDocument
    /\ ~In(Defaults[1].variable, PreDoc)
    /\ file = last.pre

\* the default variables that the file did not hold
AbsentDefaults ==
    {Defaults[i].variable : i \in 1..Len(Defaults)} \ KeySet(PreDoc)

\* C28: seeding sets the defaults in the order of the list, one write per
\* default applied: the constructor makes as many writes as there are
\* distinct default variables absent from the file, and of several entries
\* for one variable the first is the one persisted, the later ones writing
\* nothing.
C28_OneWritePerDefault ==
    (Seeded /\ FoundDocument)
        => /\ last.nw = Cardinality(AbsentDefaults)
           /\ \A k \in AbsentDefaults :
                 /\ In(k, PostDoc)
                 /\ Prop(PostDoc, k) = Defaults[FirstEntry(k)].value
           /\ PostDoc = SeedDoc(PreDoc, Defaults, 1, Len(Defaults))

\* C28 witness: two entries for one absent variable, the first one persisted
\* with a single write
C28_Witness ==
    /\ Seeded
    /\ FoundDocument
    /\ Len(Defaults) = 2
    /\ Defaults[1].variable = Defaults[2].variable
    /\ Defaults[1].value # Defaults[2].value
    /\ AbsentDefaults # {}
    /\ last.nw = 1
    /\ Prop(PostDoc, Defaults[1].variable) = Defaults[1].value

----------------------------------------------------------------------------
(* A file that cannot be parsed *)

FoundMalformed == last.preExists /\ ~Loadable(last.pre)

\* C29: while the file exists with content that cannot be parsed, every call
\* that loads the document (every query, forEach, map, set, delete, purge,
\* push, pull) throws the parse error and writes nothing, so the content of
\* the file stays what it was.
C29_MalformedRejected ==
    (last.op \in Methods \ {"clear"} /\ FoundMalformed /\ LoadsOrWrites)
        => /\ last.ret = RThrow(ErrParse)
           /\ last.nw = 0
           /\ file = last.pre
           /\ exists

\* C29 witness: set on a file that cannot be parsed
C29_Witness ==
    /\ last.op = "set"
    /\ FoundMalformed
    /\ last.ret = RThrow(ErrParse)
    /\ file = MalformedFile

\* every query and mutation works on the store as on an empty document
WorksOnEmpty ==
    /\ ReadsReflect(EmptyObj)
    /\ first(this) = RUndefined
    /\ lastOf(this) = RUndefined
    /\ pick(this, <<"a">>) = RValue(SeqV(<<>>))
    /\ forEach(this, PureCallback).ret = [RThis EXCEPT !.v = SeqV(<<>>)]
    /\ map(this, PureCallback).ret = RValue(SeqV(<<>>))
    /\ \A k \in ApiKeys :
          /\ ensure(this, k, NullV) = RValue(NullV)
          /\ find(this, k) = RValue(MapV(<<"variable", "value">>, <<Str(k), UndefinedV>>))
          /\ indexOf(this, k) = RNumber(-1)
          /\ delete(this, k, TRUE).ret = RThis
          /\ purge(this, <<k>>, TRUE).ret = RThis
          /\ push(this, k, <<>>, TRUE).ret = RNumber(-1)
          /\ pull(this, k, <<>>, TRUE).ret = RNumber(-1)
          /\ \A v \in ApiValues :
                LET o == set(this, k, v, TRUE)
                IN  /\ o.ret = RThis
                    /\ Document(o.file) = Obj(<<k>>, <<v>>)

\* C30: clear() never loads the document: while the file exists it succeeds
\* whatever the file holds, content that cannot be parsed included, and
\* afterwards the file is zero-length and every call works again, on the
\* empty document.
C30_ClearRepairs ==
    (last.op = "clear" /\ last.preExists)
        => /\ last.ret = RThis
           /\ last.nw = 1
           /\ exists
           /\ file = EmptyFile
           /\ WorksOnEmpty

\* C30 witness: clear() on a file that cannot be parsed
C30_Witness ==
    /\ last.op = "clear"
    /\ FoundMalformed
    /\ last.ret = RThis
    /\ file = EmptyFile

----------------------------------------------------------------------------
(* Several stores on one path *)

\* A mutation is a load of the file, a change of the loaded object in memory
\* and a write of that object, with nothing that ties the write to the load.
\* Within one process a call runs from its load to its write without a
\* break, so the steps of two calls interleave only between stores of
\* different processes; each process is a writer here, and runs one mutation.
Writers == {"w1", "w2"}

\* what a call has reached when its load is over: it has thrown, it has
\* returned without a write, or it holds the object it is about to write
Step(kind, err, obj) == [kind |-> kind, err |-> err, obj |-> obj]

\* set(variable, value) up to its write:
\* let obj = this.toJSON(); obj[variable] = value
setLoad(self, variable, value) ==
    LET obj == toJSON(self)
    IN  IF ~obj.ok THEN Step("throw", obj.err, EmptyObj)
        ELSE Step("write", "", Assign(obj.obj, variable, value))

\* delete(variable) up to its write:
\* let obj = this.toJSON(); if (!(variable in obj)) return this;
\* delete obj[variable]
deleteLoad(self, variable) ==
    LET obj == toJSON(self)
    IN  IF ~obj.ok THEN Step("throw", obj.err, EmptyObj)
        ELSE IF ~In(variable, obj.obj) THEN Step("return", "", obj.obj)
        ELSE Step("write", "", DeleteProp(obj.obj, variable))

\* the keys of the document on disk that obj lacks, added to obj
RECURSIVE KeepMissing(_, _, _)
KeepMissing(obj, disk, i) ==
    IF i > Len(disk.ks) THEN obj
    ELSE KeepMissing(IF In(disk.ks[i], obj) THEN obj
                     ELSE Assign(obj, disk.ks[i], disk.e[i]),
                     disk, i + 1)

\* Mutant of setWrite: the write keeps the keys that came to the file since
\* the load
setWriteMerging(self, obj, ioOk) ==
    LET disk == load(self)
        w == write(self, IF disk.ok THEN KeepMissing(obj, disk.obj, 1) ELSE obj,
                   ioOk)
    IN  IF Threw(w) THEN w ELSE [w EXCEPT !.ret = RThis]

\* the rest of set: this._write(obj); return this
setWrite(self, obj, ioOk) ==
    LET w == write(self, obj, ioOk)
    IN  IF Threw(w) THEN w ELSE [w EXCEPT !.ret = RThis]

\* the rest of delete: this._write(obj); return this
deleteWrite(self, obj, ioOk) ==
    LET w == write(self, obj, ioOk)
    IN  IF Threw(w) THEN w ELSE [w EXCEPT !.ret = RThis]

\* a writer: where its call is, the call, the file it loaded, the object it
\* holds, how many writes the file had taken when it loaded, which write of
\* the file is its own (0 for none), and what the call returned
Writer(pc, op, k, v, found, obj, seen, order, ret) ==
    [pc |-> pc, op |-> op, k |-> k, v |-> v, found |-> found, obj |-> obj,
     seen |-> seen, order |-> order, ret |-> ret]

IdleWriter == Writer("idle", "none", "", NullV, EmptyFile, EmptyObj, 0, 0, RNone)

\* the writes the file has taken
Writes == Cardinality({w \in Writers : writers[w].order > 0})

\* the writer's call as its load leaves it
Loaded(op, k, v, s) ==
    IF s.kind = "throw"
    THEN Writer("done", op, k, v, file, EmptyObj, Writes, 0, RThrow(s.err))
    ELSE IF s.kind = "return"
    THEN Writer("done", op, k, v, file, s.obj, Writes, 0, RThis)
    ELSE Writer("loaded", op, k, v, file, s.obj, Writes, 0, RNone)

\* two stores made on an existing file, by new QuickYAML(path) with no
\* default data, which writes nothing
InitWriters ==
    /\ path = <<"d", "b", ".", "y", "a", "m", "l">>
    /\ exists = TRUE
    /\ file \in InitFiles
    /\ db = [constructed |-> TRUE, variant |-> "model"]
    /\ cache = EmptyObj
    /\ last = NoCall
    /\ writers = [w \in Writers |-> IdleWriter]

SetLoad(w, variable, value) ==
    /\ writers[w].pc = "idle"
    /\ writers' = [writers EXCEPT ![w] =
                     Loaded("set", variable, value, setLoad(this, variable, value))]
    /\ UNCHANGED <<path, exists, file, db, cache, last>>

DeleteLoad(w, variable) ==
    /\ writers[w].pc = "idle"
    /\ writers' = [writers EXCEPT ![w] =
                     Loaded("delete", variable, NullV, deleteLoad(this, variable))]
    /\ UNCHANGED <<path, exists, file, db, cache, last>>

WriteStep(w) ==
    /\ writers[w].pc = "loaded"
    /\ LET o == IF writers[w].op = "set"
                THEN setWrite(this, writers[w].obj, TRUE)
                ELSE deleteWrite(this, writers[w].obj, TRUE)
       IN  /\ exists' = o.exists
           /\ file' = o.file
           /\ writers' = [writers EXCEPT ![w].pc = "done",
                                         ![w].order = Writes + 1,
                                         ![w].ret = o.ret]
    /\ UNCHANGED <<path, db, cache, last>>

NextWriters ==
    \/ \E w \in Writers, k \in Keys, v \in SetValues : SetLoad(w, k, v)
    \/ \E w \in Writers, k \in Keys : DeleteLoad(w, k)
    \/ \E w \in Writers : WriteStep(w)

SpecWriters == InitWriters /\ [][NextWriters]_vars

\* w's call was a set that returned this
SetDone(w) ==
    /\ writers[w].pc = "done"
    /\ writers[w].op = "set"
    /\ writers[w].ret = RThis

\* u loaded before w's write and wrote after it
Interleaved(w, u) ==
    /\ w # u
    /\ writers[w].order > 0
    /\ writers[u].order > writers[w].order
    /\ writers[u].seen < writers[w].order

\* u loaded after w's write, and has finished
Sequential(w, u) ==
    /\ w # u
    /\ writers[w].order > 0
    /\ writers[u].pc = "done"
    /\ writers[u].seen >= writers[w].order

\* C31: mutations are not atomic across writers.  When a set of one store
\* has returned and the mutation of another store, on another key, loaded
\* before the write of that set and wrote after it, the set has left no
\* trace: get answers for its key what it answered on the file the other
\* store loaded.  When the other store loaded after the write, the value
\* that was set is what get returns.
C31_LostUpdate ==
    \A w \in Writers, u \in Writers :
        (SetDone(w) /\ writers[u].k # writers[w].k)
            => /\ Interleaved(w, u)
                    => get(this, writers[w].k)
                         = get([this EXCEPT !.file = writers[u].found],
                               writers[w].k)
               /\ Sequential(w, u)
                    => get(this, writers[w].k) = RValue(writers[w].v)

\* C31 witness: a lost update.  Both stores ran a set that returned this, on
\* different keys, no delete was issued, and get does not return the value
\* the first set wrote.
C31_Witness ==
    \E w \in Writers, u \in Writers :
        /\ SetDone(w)
        /\ SetDone(u)
        /\ writers[u].k # writers[w].k
        /\ Interleaved(w, u)
        /\ get(this, writers[w].k) # RValue(writers[w].v)
        /\ get(this, writers[w].k) = RUndefined

====
